---- MODULE Spec2Model ----
(***************************************************************************)
(* Model of the PDF form extractor (src/scripts/PDFFormExtractor.py):      *)
(* the resolution of a widget's label from the words of its page, the      *)
(* grouping of widgets by base question, the structuring of each group     *)
(* into a question record, the selection predicate, the post-pass that     *)
(* merges questions sharing a question_text, and extract_with_labels       *)
(* around them; and of the reading of the answers from a question record   *)
(* (src/create_instance.py).                                               *)
(* The extractor runs with the default debug = False.                      *)
(*                                                                         *)
(* Python strings are sequences of one-character strings; Python None is   *)
(* the reserved value Null.                                                *)
(***************************************************************************)
EXTENDS Integers, Sequences, FiniteSets, TLC

(***************************************************************************)
(* Strings                                                                 *)
(***************************************************************************)

\* Python None: a one-element sequence whose element is no character.
Null == <<"<null>">>

\* Python truthiness of an optional string: None and "" are falsy.
Truthy(s) == s # Null /\ s # <<>>

LowerLetters == <<"a", "b", "c", "d", "e", "f", "g", "h", "i", "j", "k", "l", "m",
                  "n", "o", "p", "q", "r", "s", "t", "u", "v", "w", "x", "y", "z">>
UpperLetters == <<"A", "B", "C", "D", "E", "F", "G", "H", "I", "J", "K", "L", "M",
                  "N", "O", "P", "Q", "R", "S", "T", "U", "V", "W", "X", "Y", "Z">>
Range(f) == {f[i] : i \in DOMAIN f}
Digits == {"0", "1", "2", "3", "4", "5", "6", "7", "8", "9"}
Letters == Range(LowerLetters) \cup Range(UpperLetters)
AlphaNum == Letters \cup Digits
WhiteSpace == {" ", "\t", "\n", "\r"}

AllIn(s, lo, hi, class) == \A k \in lo..hi : s[k] \in class

\* str.upper() of one character
UpperChar(c) ==
    IF \E i \in 1..26 : LowerLetters[i] = c
    THEN UpperLetters[CHOOSE i \in 1..26 : LowerLetters[i] = c]
    ELSE c

\* str.startswith
StartsWith(s, p) == Len(p) <= Len(s) /\ SubSeq(s, 1, Len(p)) = p

\* the `in` operator on two strings
IsSubstring(p, s) ==
    \E i \in 1..(Len(s) - Len(p) + 1) : SubSeq(s, i, i + Len(p) - 1) = p

\* str.strip()
Strip(s) ==
    IF \A k \in 1..Len(s) : s[k] \in WhiteSpace THEN <<>>
    ELSE LET lo == CHOOSE i \in 1..Len(s) :
                      s[i] \notin WhiteSpace /\ AllIn(s, 1, i - 1, WhiteSpace)
             hi == CHOOSE j \in 1..Len(s) :
                      s[j] \notin WhiteSpace /\ AllIn(s, j + 1, Len(s), WhiteSpace)
         IN SubSeq(s, lo, hi)

\* str.replace("_", " ")
ReplaceUnderscores(s) == [k \in 1..Len(s) |-> IF s[k] = "_" THEN " " ELSE s[k]]

\* re.sub(r"\s+", " ", s): every run of whitespace becomes one space
RECURSIVE CollapseFrom(_, _)
CollapseFrom(s, i) ==
    IF i > Len(s) THEN <<>>
    ELSE IF s[i] \in WhiteSpace
         THEN IF i > 1 /\ s[i - 1] \in WhiteSpace
              THEN CollapseFrom(s, i + 1)
              ELSE <<" ">> \o CollapseFrom(s, i + 1)
         ELSE <<s[i]>> \o CollapseFrom(s, i + 1)

CollapseSpaces(s) == CollapseFrom(s, 1)

(***************************************************************************)
(* Field Grouper: the base question of a field name                        *)
(***************************************************************************)

EditMarker == <<"_", "e", "d", "i", "t", ";", "_">>

\* r"_\d+_[^_]*$" matches s from position i
NumberedSuffixAt(s, i) ==
    /\ s[i] = "_"
    /\ \E j \in (i + 2)..Len(s) :
          /\ s[j] = "_"
          /\ AllIn(s, i + 1, j - 1, Digits)
          /\ \A k \in (j + 1)..Len(s) : s[k] # "_"

\* r"_edit;_[^_]*$" matches s from position i
EditSuffixAt(s, i) ==
    /\ i + 6 <= Len(s)
    /\ SubSeq(s, i, i + 6) = EditMarker
    /\ \A k \in (i + 7)..Len(s) : s[k] # "_"

\* re.sub(r"_\d+_[^_]*$|_edit;_[^_]*$", "", field_name)
BaseQuestion(field_name) ==
    LET hits == {i \in 1..Len(field_name) :
                    NumberedSuffixAt(field_name, i) \/ EditSuffixAt(field_name, i)}
    IN IF hits = {} THEN field_name
       ELSE LET first == CHOOSE i \in hits : \A j \in hits : i <= j
            IN SubSeq(field_name, 1, first - 1)

(***************************************************************************)
(* _extract_question_text                                                  *)
(***************************************************************************)

HashMinLen == 20
ShortWordMax == 3

TitlePrefix ==
    <<"_", " ", " ", " ", " ", " ", " ", " ", " ", " ", " ", " ", " ", " ", " ", " ",
      " ", " ", " ", " ", " ", " ", " ", " ", " ", " ", " ", " ", " ", " ", "_">>
TitleAndAuthors ==
    <<"T", "i", "t", "l", "e", " ", "a", "n", "d", " ", "A", "u", "t", "h", "o", "r", "s">>
QuestionTextNotFound ==
    <<"Q", "u", "e", "s", "t", "i", "o", "n", " ", "t", "e", "x", "t", " ", "n", "o", "t",
      " ", "f", "o", "u", "n", "d">>

\* r"\s+[a-zA-Z0-9]{20,}\s*$" matches s from position i
HashSuffixAt(s, i) ==
    /\ s[i] \in WhiteSpace
    /\ \E a \in (i + 1)..Len(s) : \E b \in a..Len(s) :
          /\ AllIn(s, i, a - 1, WhiteSpace)
          /\ AllIn(s, a, b, AlphaNum)
          /\ b - a + 1 >= HashMinLen
          /\ AllIn(s, b + 1, Len(s), WhiteSpace)

\* r"\s+[a-zA-Z]{1,3}$" matches s from position i
ShortWordAt(s, i) ==
    /\ s[i] \in WhiteSpace
    /\ \E a \in (i + 1)..Len(s) :
          /\ AllIn(s, i, a - 1, WhiteSpace)
          /\ AllIn(s, a, Len(s), Letters)
          /\ Len(s) - a + 1 <= ShortWordMax

\* re.sub of a pattern anchored at the end of the string: the leftmost match
\* is removed
CutAtFirst(s, hits) ==
    IF hits = {} THEN s
    ELSE SubSeq(s, 1, (CHOOSE i \in hits : \A j \in hits : i <= j) - 1)

StripHashSuffix(s) == CutAtFirst(s, {i \in 1..Len(s) : HashSuffixAt(s, i)})
StripShortLastWord(s) == CutAtFirst(s, {i \in 1..Len(s) : ShortWordAt(s, i)})

\* (I+V*|V+I*) matches s[1..e] entirely
RomanGroup(s, e) ==
    /\ e >= 1
    /\ \/ \E m \in 1..e : AllIn(s, 1, m, {"I"}) /\ AllIn(s, m + 1, e, {"V"})
       \/ \E m \in 1..e : AllIn(s, 1, m, {"V"}) /\ AllIn(s, m + 1, e, {"I"})

\* the first position from `from` on whose character is not in class
\* (Len(s) + 1 when there is none)
FirstNotIn(s, from, class) ==
    LET out == {k \in from..Len(s) : s[k] \notin class}
    IN IF out = {} THEN Len(s) + 1 ELSE CHOOSE k \in out : \A j \in out : k <= j

\* re.sub(r"^(I+V*|V+I*)\s+(\d+)\s+", r"\1.\2. ", s): the Roman group is
\* s[1..e], the digits are s[a..b], the match ends at c
NormalizeRoman(s) ==
    LET e == FirstNotIn(s, 1, {"I", "V"}) - 1
        a == FirstNotIn(s, e + 1, WhiteSpace)
        b == FirstNotIn(s, a, Digits) - 1
        c == FirstNotIn(s, b + 1, WhiteSpace) - 1
    IN IF RomanGroup(s, e) /\ a > e + 1 /\ b >= a /\ c > b
       THEN SubSeq(s, 1, e) \o <<".">> \o SubSeq(s, a, b) \o <<".", " ">>
            \o SubSeq(s, c + 1, Len(s))
       ELSE s

Capitalize(s) == IF Len(s) > 1 THEN <<UpperChar(s[1])>> \o Tail(s) ELSE s

ExtractQuestionText(base_question) ==
    IF StartsWith(base_question, TitlePrefix) THEN TitleAndAuthors
    ELSE LET spaced   == ReplaceUnderscores(base_question)
             nohash   == StripHashSuffix(spaced)
             roman    == NormalizeRoman(nohash)
             cleaned  == Strip(CollapseSpaces(roman))
             trimmed  == StripShortLastWord(cleaned)
             capital  == Capitalize(trimmed)
         IN IF capital # <<>> THEN capital ELSE QuestionTextNotFound

(***************************************************************************)
(* Label enhancement and the selection predicate                           *)
(***************************************************************************)

\* scripts/mappings.py is not part of the sources: one category with one
\* known option label stands for the mapping table.
resource_mappings == << << <<"a", "b", "c", "d", "e">> >> >>

RECURSIVE EnhanceFrom(_, _, _)
EnhanceFrom(label, clean_label, c) ==
    IF c > Len(resource_mappings) THEN label
    ELSE LET mappings == resource_mappings[c]
             partial  == {k \in 1..Len(mappings) :
                             StartsWith(mappings[k], clean_label) /\ Len(clean_label) > 3}
             fuzzy    == {k \in 1..Len(mappings) :
                             /\ IsSubstring(clean_label, mappings[k])
                             /\ Len(clean_label) > 5
                             /\ Len(mappings[k]) - Len(clean_label) < 20
                             /\ Len(clean_label) - Len(mappings[k]) < 20}
             Least(S) == CHOOSE k \in S : \A j \in S : k <= j
         IN IF \E k \in 1..Len(mappings) : mappings[k] = clean_label THEN clean_label
            ELSE IF partial # {} THEN mappings[Least(partial)]
            ELSE IF fuzzy # {} THEN mappings[Least(fuzzy)]
            ELSE EnhanceFrom(label, clean_label, c + 1)

EnhanceLabel(label) ==
    IF ~Truthy(label) \/ resource_mappings = <<>> THEN label
    ELSE EnhanceFrom(label, Strip(label), 1)

Off == <<"O", "f", "f">>
NoneStr == <<"N", "o", "n", "e">>
ChoiceTypes == {"RadioButton", "CheckBox"}

\* (mutant) a RadioButton or CheckBox with the value "Off" counts as selected
IsFieldSelectedOffCounts(field) ==
    IF field.type \in ChoiceTypes
    THEN field.value \notin {Null, <<>>}
    ELSE IF field.type = "Text"
         THEN Truthy(field.value) /\ Truthy(Strip(field.value))
         ELSE FALSE

\* (mutant) a field of another type counts as selected when it has a value
IsFieldSelectedAnyType(field) ==
    IF field.type \in ChoiceTypes
    THEN field.value \notin {Off, Null, <<>>}
    ELSE IF field.type = "Text"
         THEN Truthy(field.value) /\ Truthy(Strip(field.value))
         ELSE Truthy(field.value)

IsFieldSelected(field) ==
    IF field.type \in ChoiceTypes
    THEN field.value \notin {Off, Null, <<>>}
    ELSE IF field.type = "Text"
         THEN Truthy(field.value) /\ Truthy(Strip(field.value))
         ELSE FALSE

(***************************************************************************)
(* _structure_form_data                                                    *)
(***************************************************************************)

\* dict.get of a string-valued key: None when the key is absent
Get(d, key) == IF key \in DOMAIN d THEN d[key] ELSE Null

\* the keys of question_groups in insertion order
RECURSIVE GroupKeysFrom(_, _, _)
GroupKeysFrom(raw, i, keys) ==
    IF i > Len(raw) THEN keys
    ELSE IF ~Truthy(raw[i].name) THEN GroupKeysFrom(raw, i + 1, keys)
    ELSE LET base_question == BaseQuestion(raw[i].name)
         IN IF \E k \in 1..Len(keys) : keys[k] = base_question
            THEN GroupKeysFrom(raw, i + 1, keys)
            ELSE GroupKeysFrom(raw, i + 1, Append(keys, base_question))

GroupKeys(raw) == GroupKeysFrom(raw, 1, <<>>)

\* question_groups[base_question]
GroupFields(raw, base_question) ==
    SelectSeq(raw, LAMBDA f : Truthy(f.name) /\ BaseQuestion(f.name) = base_question)

FirstFieldLabel(fields) ==
    LET with == {k \in 1..Len(fields) : Truthy(fields[k].field_label)}
    IN IF with = {} THEN Null
       ELSE fields[CHOOSE k \in with : \A j \in with : k <= j].field_label

QuestionText(base_question, fields) ==
    IF Truthy(FirstFieldLabel(fields)) THEN FirstFieldLabel(fields)
    ELSE ExtractQuestionText(base_question)

OptionInfo(field, text_input_value) ==
    LET label == IF Truthy(text_input_value) THEN text_input_value
                 ELSE EnhanceLabel(field.label)
    IN IF field.type = "Text"
       THEN [label |-> label, field_name |-> field.name, field_value |-> field.value,
             is_selected |-> IsFieldSelected(field), source_type |-> "Text"]
       ELSE [label |-> label, field_name |-> field.name, field_value |-> field.value,
             is_selected |-> IsFieldSelected(field)]

CommaSpace == <<",", " ">>

\* the merge of option_info into the entry of option_labels_to_info that has
\* its label
MergeOptionInfo(existing_info, option_info) ==
    [existing_info EXCEPT
        !.is_selected = @ \/ option_info.is_selected,
        !.field_value =
            IF Truthy(option_info.field_value) /\ ~Truthy(@)
            THEN option_info.field_value
            ELSE IF Truthy(option_info.field_value) /\ Truthy(@)
                 THEN @ \o CommaSpace \o option_info.field_value
                 ELSE @]

\* (mutant) every option is stored, also under a label already present
AddOptionNoDedup(options, option_info) == Append(options, option_info)

\* option_labels_to_info, a dict in insertion order, after one more option
AddOption(options, option_info) ==
    IF \E k \in 1..Len(options) : options[k].label = option_info.label
    THEN [k \in 1..Len(options) |->
             IF options[k].label = option_info.label
             THEN MergeOptionInfo(options[k], option_info)
             ELSE options[k]]
    ELSE Append(options, option_info)

\* the loop over the fields of a choice group
RECURSIVE OptionLoop(_, _, _, _)
OptionLoop(fields, i, text_input_value, options) ==
    IF i > Len(fields) THEN options
    ELSE LET field == fields[i]
             companion == field.type = "Text" /\ field.label = Null
         IN IF companion /\ ~Truthy(field.value)
            THEN OptionLoop(fields, i + 1, text_input_value, options)
            ELSE LET tiv == IF companion THEN field.value ELSE text_input_value
                 IN OptionLoop(fields, i + 1, tiv,
                               AddOption(options, OptionInfo(field, tiv)))

SortedTypes == <<"CheckBox", "RadioButton", "Text">>

\* ",".join(sorted(group_types))
RECURSIVE JoinTypes(_, _)
JoinTypes(group_types, i) ==
    IF i > Len(SortedTypes) THEN ""
    ELSE IF SortedTypes[i] \notin group_types THEN JoinTypes(group_types, i + 1)
    ELSE LET rest == JoinTypes(group_types, i + 1)
         IN IF rest = "" THEN SortedTypes[i] ELSE SortedTypes[i] \o "," \o rest

GroupTypeLabel(group_types) ==
    IF "RadioButton" \in group_types THEN "RadioButton"
    ELSE IF "CheckBox" \in group_types THEN "CheckBox"
    ELSE JoinTypes(group_types, 1)

SelectedLabels(options) ==
    LET picked == SelectSeq(options, LAMBDA o : o.is_selected)
    IN [k \in 1..Len(picked) |-> picked[k].label]

\* (mutant) no sentinel for an empty selection
SelectedAnswersNoSentinel(selected_options) == selected_options

\* selected_options if selected_options else ["None"]
SelectedAnswers(selected_options) ==
    IF selected_options # <<>> THEN selected_options ELSE <<NoneStr>>

\* the question record of one group
StructureGroup(base_question, fields) ==
    LET question_text == QuestionText(base_question, fields)
        group_types == {fields[k].type : k \in 1..Len(fields)}
    IN IF Len(fields) = 1 /\ fields[1].type = "Text"
       THEN [question_text |-> question_text,
             type |-> "Text",
             answer |-> IF Truthy(fields[1].value) THEN fields[1].value ELSE <<>>,
             field_name |-> fields[1].name]
       ELSE LET all_options == OptionLoop(fields, 1, Null, <<>>)
                selected_options == SelectedLabels(all_options)
            IN [question_text |-> question_text,
                type |-> GroupTypeLabel(group_types),
                selected_answers |-> SelectedAnswers(selected_options),
                all_options |-> [k \in 1..Len(all_options) |-> all_options[k].label],
                options_details |-> all_options,
                total_options |-> Len(all_options)]

StructuredQuestions(raw) ==
    LET keys == GroupKeys(raw)
    IN [g \in 1..Len(keys) |-> StructureGroup(keys[g], GroupFields(raw, keys[g]))]

QuestionHasAnswer(q) ==
    IF q.type = "Text" THEN Truthy(Get(q, "answer"))
    ELSE IF "selected_answers" \in DOMAIN q
         THEN \E k \in 1..Len(q.selected_answers) :
                 Truthy(q.selected_answers[k]) /\ q.selected_answers[k] # NoneStr
         ELSE "options_details" \in DOMAIN q
              /\ \E k \in 1..Len(q.options_details) : q.options_details[k].is_selected

CountAnswered(questions) ==
    Cardinality({k \in 1..Len(questions) : QuestionHasAnswer(questions[k])})

PdfName == "form.pdf"

StructureFormData(raw) ==
    LET structured_questions == StructuredQuestions(raw)
    IN [pdf_name |-> PdfName,
        total_questions |-> Len(structured_questions),
        extraction_summary |->
            [total_fields_found |-> Len(raw),
             questions_with_selections |-> CountAnswered(structured_questions)],
        questions |-> structured_questions]

(***************************************************************************)
(* _merge_duplicate_questions and _merge_question_group                    *)
(***************************************************************************)

\* the last element of a sequence, as a sequence of zero or one elements:
\* what a variable assigned in a loop over the sequence ends up holding
LastOf(seq) == IF seq = <<>> THEN <<>> ELSE <<seq[Len(seq)]>>

\* the option that carries the merged text answer
TextOption(text_question, text_answer) ==
    [label |-> text_answer, field_name |-> Get(text_question, "field_name"),
     field_value |-> text_answer, is_selected |-> TRUE, source_type |-> "Text"]

\* (mutant) the text answer always replaces the field_value of existing_opt
MarkExistingOverwriteValue(existing_opt, text_answer) ==
    [label |-> existing_opt.label,
     field_name |-> existing_opt.field_name,
     field_value |-> text_answer,
     is_selected |-> TRUE,
     source_type |-> IF "source_type" \in DOMAIN existing_opt
                     THEN existing_opt.source_type
                     ELSE "Text"]

\* existing_opt after the text answer was merged into it
MarkExisting(existing_opt, text_answer) ==
    [label |-> existing_opt.label,
     field_name |-> existing_opt.field_name,
     field_value |-> IF Truthy(existing_opt.field_value) THEN existing_opt.field_value
                     ELSE text_answer,
     is_selected |-> TRUE,
     source_type |-> IF "source_type" \in DOMAIN existing_opt
                     THEN existing_opt.source_type
                     ELSE "Text"]

\* options_details after the text answer: the first option with that label
\* is marked, or a new option is appended
MergedOptionsDetails(options_details, text_question, text_answer) ==
    LET same == {k \in 1..Len(options_details) : options_details[k].label = text_answer}
    IN IF same = {} THEN Append(options_details, TextOption(text_question, text_answer))
       ELSE LET first == CHOOSE k \in same : \A j \in same : k <= j
            IN [options_details EXCEPT ![first] = MarkExisting(@, text_answer)]

\* (mutant) the answer is appended to selected_answers, sentinel or not
MergeTextKeepSentinel(choice_question, text_question) ==
    LET answer == Get(text_question, "answer")
        text_answer == Strip(IF answer = Null THEN <<>> ELSE answer)
        options_details == MergedOptionsDetails(choice_question.options_details,
                                                text_question, text_answer)
    IN IF text_answer = <<>> THEN choice_question
       ELSE [choice_question EXCEPT
                !.selected_answers = Append(@, text_answer),
                !.all_options =
                    IF \E k \in 1..Len(@) : @[k] = text_answer THEN @
                    ELSE Append(@, text_answer),
                !.options_details = options_details,
                !.total_options = Len(options_details)]

\* (mutant) total_options is left as it was before the merge
MergeTextStaleTotal(choice_question, text_question) ==
    LET answer == Get(text_question, "answer")
        text_answer == Strip(IF answer = Null THEN <<>> ELSE answer)
        selected_answers == choice_question.selected_answers
        options_details == MergedOptionsDetails(choice_question.options_details,
                                                text_question, text_answer)
    IN IF text_answer = <<>> THEN choice_question
       ELSE [choice_question EXCEPT
                !.selected_answers =
                    IF selected_answers # <<>> /\ selected_answers # <<NoneStr>>
                    THEN Append(selected_answers, text_answer)
                    ELSE <<text_answer>>,
                !.all_options =
                    IF \E k \in 1..Len(@) : @[k] = text_answer THEN @
                    ELSE Append(@, text_answer),
                !.options_details = options_details]

MergeTextIntoChoice(choice_question, text_question) ==
    LET answer == Get(text_question, "answer")
        text_answer == Strip(IF answer = Null THEN <<>> ELSE answer)
        selected_answers == choice_question.selected_answers
        options_details == MergedOptionsDetails(choice_question.options_details,
                                                text_question, text_answer)
    IN IF text_answer = <<>> THEN choice_question
       ELSE [choice_question EXCEPT
                !.selected_answers =
                    IF selected_answers # <<>> /\ selected_answers # <<NoneStr>>
                    THEN Append(selected_answers, text_answer)
                    ELSE <<text_answer>>,
                !.all_options =
                    IF \E k \in 1..Len(@) : @[k] = text_answer THEN @
                    ELSE Append(@, text_answer),
                !.options_details = options_details,
                !.total_options = Len(options_details)]

MergeQuestionGroup(question_list) ==
    LET choice_question ==
            LastOf(SelectSeq(question_list, LAMBDA q : q.type \in ChoiceTypes))
        text_question == LastOf(SelectSeq(question_list, LAMBDA q : q.type = "Text"))
    IN IF choice_question # <<>> /\ text_question # <<>>
       THEN MergeTextIntoChoice(choice_question[1], text_question[1])
       ELSE question_list[1]

\* (mutant) a question text seen for the first time is put before the keys
\* seen so far
RECURSIVE TextKeysFromNewestFirst(_, _, _)
TextKeysFromNewestFirst(questions, i, keys) ==
    IF i > Len(questions) THEN keys
    ELSE IF \E k \in 1..Len(keys) : keys[k] = questions[i].question_text
         THEN TextKeysFromNewestFirst(questions, i + 1, keys)
         ELSE TextKeysFromNewestFirst(questions, i + 1,
                                      <<questions[i].question_text>> \o keys)

\* the keys of question_groups (question texts) in insertion order
RECURSIVE TextKeysFrom(_, _, _)
TextKeysFrom(questions, i, keys) ==
    IF i > Len(questions) THEN keys
    ELSE IF \E k \in 1..Len(keys) : keys[k] = questions[i].question_text
         THEN TextKeysFrom(questions, i + 1, keys)
         ELSE TextKeysFrom(questions, i + 1, Append(keys, questions[i].question_text))

QuestionsWithText(questions, question_text) ==
    SelectSeq(questions, LAMBDA q : q.question_text = question_text)

\* (mutant) a list with a group of more than two questions is left as it is
MergedQuestionsLeaveLarge(questions) ==
    IF \E n \in 1..Len(questions) :
          Len(QuestionsWithText(questions, questions[n].question_text)) > 2
    THEN questions
    ELSE LET keys == TextKeysFrom(questions, 1, <<>>)
         IN [g \in 1..Len(keys) |->
                LET question_list == QuestionsWithText(questions, keys[g])
                IN IF Len(question_list) = 1 THEN question_list[1]
                   ELSE MergeQuestionGroup(question_list)]

MergedQuestions(questions) ==
    LET keys == TextKeysFrom(questions, 1, <<>>)
    IN [g \in 1..Len(keys) |->
           LET question_list == QuestionsWithText(questions, keys[g])
           IN IF Len(question_list) = 1 THEN question_list[1]
              ELSE MergeQuestionGroup(question_list)]

\* (mutant) the answered questions are counted before the merge
MergeDuplicateQuestionsStaleCount(structured_data) ==
    IF structured_data.questions = <<>> THEN structured_data
    ELSE LET merged_questions == MergedQuestions(structured_data.questions)
         IN [structured_data EXCEPT
                !.questions = merged_questions,
                !.total_questions = Len(merged_questions),
                !.extraction_summary.questions_with_selections =
                    CountAnswered(structured_data.questions)]

MergeDuplicateQuestions(structured_data) ==
    IF structured_data.questions = <<>> THEN structured_data
    ELSE LET merged_questions == MergedQuestions(structured_data.questions)
         IN [structured_data EXCEPT
                !.questions = merged_questions,
                !.total_questions = Len(merged_questions),
                !.extraction_summary.questions_with_selections =
                    CountAnswered(merged_questions)]

(***************************************************************************)
(* The documents: widgets as _get_widget_info records them                 *)
(***************************************************************************)

MaxFields == 3

Widget(name, type, value, label, field_label) ==
    [name |-> name, type |-> type, value |-> value, label |-> label,
     field_label |-> field_label]

Q1Yes == <<"q", "1", "_", "0", "_", "y">>
Q1No == <<"q", "1", "_", "1", "_", "n">>
Q1Ab == <<"q", "1", "_", "a", "b">>
Q1Cd == <<"q", "1", "_", "c", "d">>
HashToken ==
    <<"3", "o", "n", "V", "9", "G", "F", "5", "1", "v", "2", "q", "n", "4", "B", "5",
      "z", "3", "0", "6", "p", "Q">>
HashName == <<"I", "_", "1", "_">> \o HashToken
Yes == <<"Y", "e", "s">>
LabelA == <<"a">>
LabelB == <<"b">>
LabelC == <<"c">>
LabelAbcd == <<"a", "b", "c", "d">>
LabelAbcde == <<"a", "b", "c", "d", "e">>
DeclaredZ == <<"Z">>

\* The widgets a document is drawn from.  q1_0_y and q1_1_n share the base
\* question q1; q1_ab is a base question of its own with the same derived
\* question text (Q1), and so is q1_cd.
WidgetList ==
    << Widget(Q1Yes, "RadioButton", Yes, LabelA, Null),
       Widget(Q1No, "RadioButton", Null, LabelB, Null),
       Widget(Q1Yes, "CheckBox", Off, LabelA, Null),
       Widget(Q1No, "CheckBox", Yes, Null, Null),
       Widget(Q1No, "Text", <<" ", "x">>, Null, Null),
       Widget(Q1Yes, "Text", <<>>, Null, Null),
       Widget(Q1Ab, "Text", <<"a">>, Null, Null),
       Widget(Q1Ab, "Text", <<" ">>, Null, Null),
       Widget(Q1Ab, "CheckBox", Yes, LabelB, Null),
       Widget(HashName, "Text", <<"x">>, Null, Null),
       Widget(Q1Yes, "RadioButton", Off, LabelAbcd, Null),
       Widget(Q1No, "RadioButton", Yes, LabelAbcde, Null),
       Widget(Q1No, "CheckBox", Off, LabelB, DeclaredZ),
       Widget(<<>>, "Text", <<"x">>, Null, Null),
       Widget(Q1Yes, "CheckBox", Yes, NoneStr, Null),
       Widget(Q1No, "Text", <<"a">>, LabelB, Null),
       Widget(Q1Yes, "RadioButton", Off, LabelC, Null),
       Widget(Q1Cd, "Text", <<"b">>, Null, Null),
       Widget(Q1No, "Text", Null, Null, Null),
       Widget(Q1No, "CheckBox", Yes, LabelA, Null) >>

\* the widgets with the indices in S, in the order of WidgetList
RECURSIVE Pick(_)
Pick(S) ==
    IF S = {} THEN <<>>
    ELSE LET least == CHOOSE i \in S : \A j \in S : i <= j
         IN <<WidgetList[least]>> \o Pick(S \ {least})

Documents ==
    {Pick(S) : S \in {T \in SUBSET (1..Len(WidgetList)) :
                         T # {} /\ Cardinality(T) <= MaxFields}}

Orderings(n) == {p \in [1..n -> 1..n] : \A i, j \in 1..n : p[i] = p[j] => i = j}

(***************************************************************************)
(* Downstream answer extraction: extract_answer_from_question of           *)
(* src/create_instance.py, applied to the question records of the result   *)
(***************************************************************************)

\* str.lower() of one character
LowerChar(c) ==
    IF \E i \in 1..26 : UpperLetters[i] = c
    THEN LowerLetters[CHOOSE i \in 1..26 : UpperLetters[i] = c]
    ELSE c

\* str.lower()
Lower(s) == [k \in 1..Len(s) |-> LowerChar(s[k])]

\* str.split(",")
RECURSIVE SplitComma(_)
SplitComma(s) ==
    IF \A k \in 1..Len(s) : s[k] # "," THEN <<s>>
    ELSE LET i == CHOOSE k \in 1..Len(s) : s[k] = "," /\ \A j \in 1..(k - 1) : s[j] # ","
         IN <<SubSeq(s, 1, i - 1)>> \o SplitComma(SubSeq(s, i + 1, Len(s)))

\* the `in` operator on a list of answers
Contains(answers, a) == \E k \in 1..Len(answers) : answers[k] = a

\* the loop over the parts of a comma-separated answer
RECURSIVE SubAnswers(_, _, _)
SubAnswers(parts, i, answers) ==
    IF i > Len(parts) THEN answers
    ELSE LET sub_answer == Strip(parts[i])
         IN SubAnswers(parts, i + 1,
                       IF sub_answer # <<>> /\ ~Contains(answers, sub_answer)
                       THEN Append(answers, sub_answer)
                       ELSE answers)

\* the loop over selected_answers
RECURSIVE SelectedAnswersLoop(_, _, _)
SelectedAnswersLoop(selected, i, answers) ==
    IF i > Len(selected) THEN answers
    ELSE LET answer == selected[i]
         IN SelectedAnswersLoop(selected, i + 1,
                IF Truthy(answer) /\ Strip(answer) # <<>> /\ Strip(answer) # NoneStr
                THEN IF "," \in Range(answer) /\ Len(SplitComma(answer)) > 1
                     THEN SubAnswers(SplitComma(answer), 1, answers)
                     ELSE Append(answers, Strip(answer))
                ELSE answers)

\* what one entry of options_details adds to answers
OptionAnswers(option, answers) ==
    IF ~option.is_selected THEN answers
    ELSE LET answer_to_add == Lower(Strip(option.label))
             with_label ==
                 IF /\ Truthy(option.label) /\ Strip(option.label) # <<>>
                    /\ ~Contains(answers, answer_to_add) /\ answer_to_add # NoneStr
                 THEN Append(answers, answer_to_add)
                 ELSE answers
             field_value == option.field_value
         IN IF /\ Truthy(field_value) /\ Strip(field_value) # <<>>
               /\ field_value \notin {Yes, Off, <<>>, NoneStr}
               /\ ~Contains(with_label, Strip(field_value))
            THEN Append(with_label, Strip(field_value))
            ELSE with_label

\* the loop over options_details
RECURSIVE OptionsDetailsLoop(_, _, _)
OptionsDetailsLoop(options_details, i, answers) ==
    IF i > Len(options_details) THEN answers
    ELSE OptionsDetailsLoop(options_details, i + 1,
                            OptionAnswers(options_details[i], answers))

ExtractAnswerFromQuestion(question_data) ==
    LET question_text == Strip(question_data.question_text)
        direct == IF Truthy(Get(question_data, "answer"))
                     /\ Strip(question_data.answer) # <<>>
                  THEN <<Strip(question_data.answer)>>
                  ELSE <<>>
        chosen == IF "selected_answers" \in DOMAIN question_data
                  THEN SelectedAnswersLoop(question_data.selected_answers, 1, direct)
                  ELSE direct
        detailed == IF "options_details" \in DOMAIN question_data
                    THEN OptionsDetailsLoop(question_data.options_details, 1, chosen)
                    ELSE chosen
        text_input == Strip(Get(question_data, "text_input_value"))
        answers == IF Truthy(Get(question_data, "text_input_value"))
                      /\ text_input # <<>> /\ text_input # NoneStr
                   THEN Append(detailed, text_input)
                   ELSE detailed
    IN IF question_text = <<>> THEN <<>>
       ELSE SelectSeq(answers, LAMBDA ans : Truthy(ans) /\ Strip(ans) # <<>>)

(***************************************************************************)
(* extract_with_labels: the document, the check for interactive fields,    *)
(* the collection of the fields and the validation against the mappings    *)
(***************************************************************************)

MaxPages == 2
MaxPageWidgets == 2

\* the widgets the pages of a document are drawn from, as indices of
\* WidgetList: a RadioButton, a Text widget and a widget without a name
PageWidgetIndices == {1, 5, 14}

\* the pages a document can have: up to MaxPageWidgets different widgets in
\* any order, or none
Pages ==
    UNION {{[k \in 1..n |-> WidgetList[ix[k]]] :
               ix \in {f \in [1..n -> PageWidgetIndices] :
                          \A i, j \in 1..n : f[i] = f[j] => i = j}} :
           n \in 0..MaxPageWidgets}

PagedDocuments == UNION {[1..n -> Pages] : n \in 0..MaxPages}

\* bool(page.widgets()): Page.widgets() of PyMuPDF is a generator function,
\* and a generator object is truthy whatever it yields
WidgetsTruthy(page) == TRUE

\* any(page.widgets() for page in self.doc)
HasInteractiveFields(document) ==
    \E p \in 1..Len(document) : WidgetsTruthy(document[p])

\* _collect_raw_field_data: the widget infos of all pages in page order (the
\* page number each info also carries is read by no later step)
RECURSIVE CollectRawFieldData(_)
CollectRawFieldData(document) ==
    IF document = <<>> THEN <<>>
    ELSE document[1] \o CollectRawFieldData(SubSeq(document, 2, Len(document)))

\* scripts.mappings.predicates_mapping is not part of the sources: no
\* predicate is described
predicates_mapping == <<>>

\* _get_expected_options_for_question: the option labels of the first
\* predicate whose description occurs in the question text
GetExpectedOptionsForQuestion(question_text) ==
    LET hits == {p \in 1..Len(predicates_mapping) :
                    /\ IsSubstring(Lower(predicates_mapping[p].description),
                                   Lower(question_text))
                    /\ predicates_mapping[p].resource_mapping_key
                          \in 1..Len(resource_mappings)}
    IN IF ~Truthy(question_text) \/ hits = {} THEN <<>>
       ELSE resource_mappings[
                predicates_mapping[CHOOSE p \in hits : \A r \in hits : p <= r]
                    .resource_mapping_key]

\* the sum of the values of a function with a finite domain
RECURSIVE SumOver(_)
SumOver(f) ==
    IF DOMAIN f = {} THEN 0
    ELSE LET n == CHOOSE m \in DOMAIN f : TRUE
         IN f[n] + SumOver([m \in DOMAIN f \ {n} |-> f[m]])

\* _validate_against_mappings: the result, with a validation_summary when a
\* choice question with expected options misses one or has a label that the
\* mappings would enhance
ValidateAgainstMappings(structured_data) ==
    LET questions == structured_data.questions
        checked == {n \in 1..Len(questions) :
                       /\ questions[n].type # "Text"
                       /\ GetExpectedOptionsForQuestion(questions[n].question_text) # <<>>}
        missing_options ==
            [n \in checked |->
                Cardinality(Range(GetExpectedOptionsForQuestion(questions[n].question_text))
                              \ Range(questions[n].all_options))]
        mapping_enhancements ==
            [n \in checked |->
                Cardinality({k \in 1..Len(questions[n].options_details) :
                                LET original_label == questions[n].options_details[k].label
                                IN Truthy(original_label)
                                   /\ EnhanceLabel(original_label) # original_label})]
    IN IF questions = <<>> THEN structured_data
       ELSE IF SumOver(missing_options) = 0 /\ SumOver(mapping_enhancements) = 0
            THEN structured_data
            ELSE [k \in DOMAIN structured_data \cup {"validation_summary"} |->
                     IF k = "validation_summary"
                     THEN [mapping_enhancements |-> SumOver(mapping_enhancements),
                           potential_issues |-> <<>>,
                           missing_options |-> SumOver(missing_options)]
                     ELSE structured_data[k]]

\* the empty dict
EmptyResult == <<>>

(***************************************************************************)
(* Label Resolver: _find_label_for_widget                                  *)
(***************************************************************************)

VERTICAL_TOLERANCE == 3
MAX_HORIZONTAL_DISTANCE == 150
MAX_WORD_GAP == 50

\* twice the vertical midpoint (y0 + y1) / 2 of a rectangle, so that the
\* midpoints of integer rectangles stay integers
TwiceMidY(rect) == rect.y0 + rect.y1

Abs(n) == IF n < 0 THEN 0 - n ELSE n

\* abs(word_mid_y - widget_mid_y) <= VERTICAL_TOLERANCE
VerticallyAligned(widget_rect, word_rect) ==
    Abs(TwiceMidY(word_rect) - TwiceMidY(widget_rect)) <= 2 * VERTICAL_TOLERANCE

\* the word starts to the right of the widget, but not too far
HorizontallyClose(widget_rect, word_rect) ==
    /\ word_rect.x0 > widget_rect.x1
    /\ word_rect.x0 - widget_rect.x1 <= MAX_HORIZONTAL_DISTANCE

\* candidate_words, in the order of the words of the page
CandidateWords(widget_rect, words) ==
    LET close == SelectSeq(words, LAMBDA w : VerticallyAligned(widget_rect, w)
                                             /\ HorizontallyClose(widget_rect, w))
    IN [k \in 1..Len(close) |-> [x0 |-> close[k].x0, text |-> close[k].text]]

\* candidate_words.sort(key=lambda x: x[0]): a stable sort
RECURSIVE SortByX(_)
SortByX(candidate_words) ==
    IF candidate_words = <<>> THEN <<>>
    ELSE LET n == Len(candidate_words)
             sorted == SortByX(SubSeq(candidate_words, 1, n - 1))
             before == Cardinality({k \in 1..Len(sorted) :
                                      sorted[k].x0 <= candidate_words[n].x0})
         IN SubSeq(sorted, 1, before) \o <<candidate_words[n]>>
              \o SubSeq(sorted, before + 1, Len(sorted))

\* (mutant) every candidate word is taken, whatever the gaps
RECURSIVE LabelWordsNoGapCut(_, _)
LabelWordsNoGapCut(candidate_words, i) ==
    IF i > Len(candidate_words) THEN <<>>
    ELSE <<candidate_words[i].text>> \o LabelWordsNoGapCut(candidate_words, i + 1)

\* label_words: the words from the i-th sorted candidate on, up to the
\* first gap of more than MAX_WORD_GAP
RECURSIVE LabelWords(_, _)
LabelWords(candidate_words, i) ==
    IF i > Len(candidate_words) THEN <<>>
    ELSE IF i > 1 /\ candidate_words[i].x0 - candidate_words[i - 1].x0 > MAX_WORD_GAP
         THEN <<>>
         ELSE <<candidate_words[i].text>> \o LabelWords(candidate_words, i + 1)

\* " ".join(label_words)
RECURSIVE JoinWithSpaces(_)
JoinWithSpaces(label_words) ==
    IF label_words = <<>> THEN <<>>
    ELSE IF Len(label_words) = 1 THEN label_words[1]
    ELSE label_words[1] \o <<" ">>
           \o JoinWithSpaces(SubSeq(label_words, 2, Len(label_words)))

FindLabelForWidget(widget_rect, words) ==
    LET candidate_words == CandidateWords(widget_rect, words)
        label == JoinWithSpaces(LabelWords(SortByX(candidate_words), 1))
        enhanced_label == EnhanceLabel(label)
    IN IF candidate_words = <<>> THEN Null
       ELSE IF Truthy(enhanced_label) THEN enhanced_label ELSE label

MaxWords == 3

\* the rectangle of the widget: its right edge is at 100, its vertical
\* midpoint at 15
WidgetRect == [x0 |-> 90, y0 |-> 10, x1 |-> 100, y1 |-> 20]

Word(x0, y0, y1, text) == [x0 |-> x0, y0 |-> y0, x1 |-> x0 + 8, y1 |-> y1, text |-> text]

\* The words a page is drawn from: on the widget's edge and just right of
\* it; 50 and 51 units further; 150 and 151 units from the widget; one that
\* bridges the gap to the far words; one whose midpoint is off by exactly
\* the tolerance and one off by half a unit more; one the mappings complete;
\* two that start at the same place.
WordList ==
    << Word(100, 10, 20, <<"t">>),
       Word(101, 10, 20, <<"a">>),
       Word(151, 10, 20, <<"b">>),
       Word(152, 13, 23, <<"c">>),
       Word(250, 10, 20, <<"d">>),
       Word(251, 10, 20, <<"e">>),
       Word(201, 10, 20, <<"f">>),
       Word(120, 13, 24, <<"g">>),
       Word(110, 10, 20, LabelAbcd),
       Word(101, 10, 20, <<"h">>) >>

\* page.get_text("words"): up to MaxWords different words in any order
WordsOnPage ==
    UNION {{[k \in 1..n |-> WordList[ix[k]]] :
               ix \in {f \in [1..n -> 1..Len(WordList)] :
                          \A i, j \in 1..n : f[i] = f[j] => i = j}} :
           n \in 0..MaxWords}

(***************************************************************************)
(* The fields the selection predicate is asked about                       *)
(***************************************************************************)

\* the values of Widget.field_type_string
FieldTypes ==
    {"RadioButton", "CheckBox", "Text", "ComboBox", "ListBox", "Button", "Signature"}

\* field values: none, empty, the off state in two letter cases, on states,
\* blank and padded text
FieldValues ==
    {Null, <<>>, Off, <<"o", "f", "f">>, Yes, NoneStr, <<"0">>, <<" ">>, <<"\t">>,
     <<" ", " ">>, <<" ", "x">>, <<"x", " ">>, <<"a">>, <<" ", "O", "f", "f">>}

FieldsToCheck ==
    {Widget(Q1Yes, type, value, Null, Null) : type \in FieldTypes, value \in FieldValues}

\* no field was handed to the selection predicate
NoField == <<>>

(***************************************************************************)
(* extract_with_labels, step by step                                       *)
(***************************************************************************)

VARIABLES
    raw_fields,   \* the widgets of the document, in traversal order
    pc,           \* the position of the run in extract_with_labels
    structured,   \* the result of _structure_form_data
    merged,       \* the result of _merge_duplicate_questions
    remerged,     \* the result of the merger applied to its own output
    ref,          \* the finished run over the first ordering, when there is one
    extracted,    \* the answers read from each question of the merged result
    doc,          \* the pages of the opened document, each the widgets of the page
    results,      \* what extract_with_labels returned
    words_on_page,  \* the words of the page the Label Resolver looks at
    widget_label,   \* the label the Label Resolver found for the widget
    checked_field,  \* the field the selection predicate is asked about
    field_selected  \* what the selection predicate answered

vars == <<raw_fields, pc, structured, merged, remerged, ref, extracted, doc, results,
          words_on_page, widget_label, checked_field, field_selected>>

\* the value of a result that was not computed yet
NotRun ==
    [pdf_name |-> PdfName, total_questions |-> 0,
     extraction_summary |-> [total_fields_found |-> 0, questions_with_selections |-> 0],
     questions |-> <<>>]

Init ==
    /\ raw_fields \in Documents
    /\ pc = "collected"
    /\ structured = NotRun
    /\ merged = NotRun
    /\ remerged = NotRun
    /\ ref = <<>>
    /\ extracted = <<>>
    /\ doc = <<>>
    /\ results = EmptyResult
    /\ words_on_page = <<>>
    /\ widget_label = Null
    /\ checked_field = NoField
    /\ field_selected = FALSE

Structure ==
    /\ pc = "collected"
    /\ structured' = StructureFormData(raw_fields)
    /\ pc' = "structured"
    /\ UNCHANGED <<raw_fields, merged, remerged, ref, extracted, doc, results, words_on_page, widget_label,
                 checked_field, field_selected>>

MergeDuplicates ==
    /\ pc = "structured"
    /\ merged' = MergeDuplicateQuestions(structured)
    /\ pc' = "merged"
    /\ UNCHANGED <<raw_fields, structured, remerged, ref, extracted, doc, results, words_on_page, widget_label,
                 checked_field, field_selected>>

\* the merger run once more, on its own output
MergeAgain ==
    /\ pc = "merged"
    /\ remerged' = MergeDuplicateQuestions(merged)
    /\ pc' = "remerged"
    /\ UNCHANGED <<raw_fields, structured, merged, ref, extracted, doc, results, words_on_page, widget_label,
                 checked_field, field_selected>>

\* a second run over the same widgets, collected in another order
Reorder ==
    /\ pc = "merged"
    /\ ref = <<>>
    /\ \E p \in Orderings(Len(raw_fields)) :
          /\ \E i \in 1..Len(raw_fields) : p[i] # i
          /\ raw_fields' = [i \in 1..Len(raw_fields) |-> raw_fields[p[i]]]
    /\ ref' = <<[raw_fields |-> raw_fields, structured |-> structured, merged |-> merged]>>
    /\ pc' = "collected"
    /\ structured' = NotRun
    /\ merged' = NotRun
    /\ UNCHANGED <<remerged, extracted, doc, results, words_on_page, widget_label,
                 checked_field, field_selected>>

\* the mapping layer reads the answers of every question of the result
ExtractAnswers ==
    /\ pc = "merged"
    /\ extracted' = [n \in 1..Len(merged.questions) |->
                        ExtractAnswerFromQuestion(merged.questions[n])]
    /\ pc' = "extracted"
    /\ UNCHANGED <<raw_fields, structured, merged, remerged, ref, doc, results, words_on_page, widget_label,
                 checked_field, field_selected>>

Next == Structure \/ MergeDuplicates \/ MergeAgain \/ Reorder \/ ExtractAnswers

Spec == Init /\ [][Next]_vars

\* extract_with_labels from the opened document on
InitExtract ==
    /\ doc \in PagedDocuments
    /\ pc = "opened"
    /\ raw_fields = <<>>
    /\ structured = NotRun
    /\ merged = NotRun
    /\ remerged = NotRun
    /\ ref = <<>>
    /\ extracted = <<>>
    /\ results = EmptyResult
    /\ words_on_page = <<>>
    /\ widget_label = Null
    /\ checked_field = NoField
    /\ field_selected = FALSE

\* no interactive fields: the empty dict is returned
ReturnNoFields ==
    /\ pc = "opened"
    /\ ~HasInteractiveFields(doc)
    /\ results' = EmptyResult
    /\ pc' = "returned"
    /\ UNCHANGED <<raw_fields, structured, merged, remerged, ref, extracted, doc, words_on_page, widget_label,
                 checked_field, field_selected>>

CollectFields ==
    /\ pc = "opened"
    /\ HasInteractiveFields(doc)
    /\ raw_fields' = CollectRawFieldData(doc)
    /\ pc' = "collected"
    /\ UNCHANGED <<structured, merged, remerged, ref, extracted, doc, results, words_on_page, widget_label,
                 checked_field, field_selected>>

\* the merged data is validated, stored in self.results and returned
ReturnResults ==
    /\ pc = "merged"
    /\ results' = ValidateAgainstMappings(merged)
    /\ pc' = "returned"
    /\ UNCHANGED <<raw_fields, structured, merged, remerged, ref, extracted, doc, words_on_page, widget_label,
                 checked_field, field_selected>>

NextExtract ==
    ReturnNoFields \/ CollectFields \/ Structure \/ MergeDuplicates \/ ReturnResults

SpecExtract == InitExtract /\ [][NextExtract]_vars

\* the Label Resolver on one widget and the words of its page
InitLabel ==
    /\ words_on_page \in WordsOnPage
    /\ widget_label = Null
    /\ pc = "page"
    /\ raw_fields = <<>>
    /\ structured = NotRun
    /\ merged = NotRun
    /\ remerged = NotRun
    /\ ref = <<>>
    /\ extracted = <<>>
    /\ doc = <<>>
    /\ results = EmptyResult
    /\ checked_field = NoField
    /\ field_selected = FALSE

FindLabel ==
    /\ pc = "page"
    /\ widget_label' = FindLabelForWidget(WidgetRect, words_on_page)
    /\ pc' = "resolved"
    /\ UNCHANGED <<raw_fields, structured, merged, remerged, ref, extracted, doc, results,
                   words_on_page, checked_field, field_selected>>

NextLabel == FindLabel

SpecLabel == InitLabel /\ [][NextLabel]_vars

\* the selection predicate on one field
InitSelect ==
    /\ checked_field \in FieldsToCheck
    /\ field_selected = FALSE
    /\ pc = "field"
    /\ raw_fields = <<>>
    /\ structured = NotRun
    /\ merged = NotRun
    /\ remerged = NotRun
    /\ ref = <<>>
    /\ extracted = <<>>
    /\ doc = <<>>
    /\ results = EmptyResult
    /\ words_on_page = <<>>
    /\ widget_label = Null

CheckSelected ==
    /\ pc = "field"
    /\ field_selected' = IsFieldSelected(checked_field)
    /\ pc' = "checked"
    /\ UNCHANGED <<raw_fields, structured, merged, remerged, ref, extracted, doc, results,
                   words_on_page, widget_label, checked_field>>

NextSelect == CheckSelected

SpecSelect == InitSelect /\ [][NextSelect]_vars

(***************************************************************************)
(* Properties                                                              *)
(***************************************************************************)

\* every question a stage has put out so far
OutputQuestions == structured.questions \o merged.questions \o remerged.questions

\* a ChoiceQuestion: a record that carries options
IsChoiceQuestion(q) == "options_details" \in DOMAIN q

\* a TextQuestion: a record that carries an answer
IsTextQuestion(q) == "answer" \in DOMAIN q

HasSelectedOption(q) == \E k \in 1..Len(q.options_details) : q.options_details[k].is_selected

\* C3: in every ChoiceQuestion put out by structuring or by duplicate
\* merging, no two entries of options_details have the same label.
C3_NoDuplicateLabels ==
    \A n \in 1..Len(OutputQuestions) :
        LET q == OutputQuestions[n]
        IN IsChoiceQuestion(q) =>
              \A i, j \in 1..Len(q.options_details) :
                  q.options_details[i].label = q.options_details[j].label => i = j

\* two widgets of one group resolved to the same label, and a Text answer
\* that equals the label of an option was merged into the choice question
C3_Witness ==
    /\ pc = "merged"
    /\ \E i, j \in 1..Len(raw_fields) :
          /\ i < j
          /\ raw_fields[i].type \in ChoiceTypes /\ raw_fields[j].type \in ChoiceTypes
          /\ Truthy(raw_fields[i].name) /\ Truthy(raw_fields[j].name)
          /\ BaseQuestion(raw_fields[i].name) = BaseQuestion(raw_fields[j].name)
          /\ raw_fields[i].label # Null
          /\ raw_fields[i].label = raw_fields[j].label
    /\ \E a, b \in 1..Len(structured.questions) :
          LET c == structured.questions[a]
              t == structured.questions[b]
          IN /\ IsChoiceQuestion(c) /\ c.type \in ChoiceTypes
             /\ IsTextQuestion(t)
             /\ c.question_text = t.question_text
             /\ \E k \in 1..Len(c.all_options) : c.all_options[k] = Strip(t.answer)
    /\ merged.total_questions < structured.total_questions

\* C4: a ChoiceQuestion in which no option is selected has selected_answers
\* equal to ["None"], and selected_answers is never the empty list, after
\* structuring and after duplicate merging.
C4_SelectionSentinel ==
    \A n \in 1..Len(OutputQuestions) :
        LET q == OutputQuestions[n]
        IN IsChoiceQuestion(q) =>
              /\ q.selected_answers # <<>>
              /\ ~HasSelectedOption(q) => q.selected_answers = <<NoneStr>>

\* the final output holds a choice question with options none of which is
\* selected
C4_Witness ==
    /\ pc = "merged"
    /\ \E n \in 1..Len(merged.questions) :
          LET q == merged.questions[n]
          IN /\ IsChoiceQuestion(q)
             /\ q.options_details # <<>>
             /\ ~HasSelectedOption(q)
             /\ q.selected_answers = <<NoneStr>>

\* C5: the merger applied to its own output changes nothing: questions
\* (order and content), total_questions and questions_with_selections of the
\* second pass equal those of the first.
C5_MergeIdempotent == pc = "remerged" => remerged = merged

\* the second pass ran on the output of a first pass that merged a Text
\* answer into a choice question
C5_Witness ==
    /\ pc = "remerged"
    /\ merged.total_questions < structured.total_questions
    /\ \E n \in 1..Len(merged.questions) :
          /\ IsChoiceQuestion(merged.questions[n])
          /\ \A k \in 1..Len(structured.questions) :
                structured.questions[k] # merged.questions[n]

\* questions_with_selections of a result
Answered(result) == result.extraction_summary.questions_with_selections

\* C1: for two orderings of the same widgets, grouping, structuring and
\* duplicate merging yield the same total_questions and the same
\* questions_with_selections.
C1_OrderIndependentCounts ==
    (pc = "merged" /\ ref # <<>>) =>
        /\ merged.total_questions = ref[1].merged.total_questions
        /\ Answered(merged) = Answered(ref[1].merged)

\* the content of a question: its type and, for a choice question, the
\* option labels with their is_selected flags and the set of selected
\* answers; for a text question, its answer
SameContent(q, r) ==
    /\ q.type = r.type
    /\ IsChoiceQuestion(q) = IsChoiceQuestion(r)
    /\ IsTextQuestion(q) = IsTextQuestion(r)
    /\ IsChoiceQuestion(q) =>
          /\ {<<q.options_details[k].label, q.options_details[k].is_selected>> :
                 k \in 1..Len(q.options_details)}
             = {<<r.options_details[k].label, r.options_details[k].is_selected>> :
                 k \in 1..Len(r.options_details)}
          /\ Range(q.all_options) = Range(r.all_options)
          /\ Range(q.selected_answers) = Range(r.selected_answers)
    /\ IsTextQuestion(q) => q.answer = r.answer

\* every question of qs has a question of rs with its text and content
Covers(qs, rs) ==
    \A i \in 1..Len(qs) : \E j \in 1..Len(rs) :
        qs[i].question_text = rs[j].question_text /\ SameContent(qs[i], rs[j])

\* C2: for two orderings of the same widgets, every output question has the
\* same content (type, option labels, is_selected per label, selected
\* answers); only the position of the questions may differ.
C2_OrderIndependentContent ==
    (pc = "merged" /\ ref # <<>>) =>
        /\ Covers(merged.questions, ref[1].merged.questions)
        /\ Covers(ref[1].merged.questions, merged.questions)

\* C6: every output question has one of two shapes: type Text with answer
\* and field_name, or type RadioButton or CheckBox with selected_answers,
\* all_options, options_details and total_options.
C6_TwoShapes ==
    \A n \in 1..Len(OutputQuestions) :
        LET q == OutputQuestions[n]
        IN \/ /\ q.type = "Text"
              /\ DOMAIN q = {"question_text", "type", "answer", "field_name"}
           \/ /\ q.type \in ChoiceTypes
              /\ DOMAIN q = {"question_text", "type", "selected_answers", "all_options",
                             "options_details", "total_options"}

\* a question counts as answered: a TextQuestion with a non-blank answer, or
\* a ChoiceQuestion with a selected answer other than "None"
CountsAsAnswered(q) ==
    \/ IsTextQuestion(q) /\ Strip(q.answer) # <<>>
    \/ /\ IsChoiceQuestion(q)
       /\ \E k \in 1..Len(q.selected_answers) : q.selected_answers[k] # NoneStr

\* C7: in the final result questions_with_selections is the number of
\* questions that count as answered.
C7_AnsweredCount ==
    pc = "merged" =>
        Answered(merged) =
            Cardinality({k \in 1..Len(merged.questions) :
                            CountsAsAnswered(merged.questions[k])})

\* the choice question c and the Text question t are the two structured
\* questions with their question_text, and the answer of t is not blank
ChoiceAndTextPair(c, t) ==
    /\ c.type \in ChoiceTypes
    /\ t.type = "Text" /\ IsTextQuestion(t)
    /\ t.question_text = c.question_text
    /\ Len(QuestionsWithText(structured.questions, c.question_text)) = 2
    /\ Strip(t.answer) # <<>>

\* C8: when a question_text is shared by one choice question and one Text
\* question with a non-blank answer, the merged output holds a single
\* question for that text: the choice question, whose selected_answers is
\* its previous selections (a lone "None" removed) followed by the trimmed
\* answer, with an option of that label, selected, of source_type Text.
C8_TextMergedIntoChoice ==
    pc = "merged" =>
        \A a, b \in 1..Len(structured.questions) :
            LET c == structured.questions[a]
                t == structured.questions[b]
                out == QuestionsWithText(merged.questions, c.question_text)
            IN ChoiceAndTextPair(c, t) =>
                  /\ Len(out) = 1
                  /\ out[1].type = c.type
                  /\ IsChoiceQuestion(out[1])
                  /\ \A k \in 1..Len(c.options_details) :
                        out[1].options_details[k].label = c.options_details[k].label
                  /\ out[1].selected_answers =
                        (IF c.selected_answers = <<NoneStr>> THEN <<>>
                         ELSE c.selected_answers) \o <<Strip(t.answer)>>
                  /\ \E k \in 1..Len(out[1].options_details) :
                        LET o == out[1].options_details[k]
                        IN /\ o.label = Strip(t.answer)
                           /\ o.is_selected
                           /\ "source_type" \in DOMAIN o
                           /\ o.source_type = "Text"

\* a choice question with a selection of its own and a Text question whose
\* answer needs trimming were merged
C8_Witness ==
    /\ pc = "merged"
    /\ \E a, b \in 1..Len(structured.questions) :
          /\ ChoiceAndTextPair(structured.questions[a], structured.questions[b])
          /\ structured.questions[a].selected_answers # <<NoneStr>>
          /\ Strip(structured.questions[b].answer) # structured.questions[b].answer

\* the fields are a group of two or more RadioButton widgets with pairwise
\* distinct labels that enhancement leaves alone, exactly one of them with a
\* value other than "Off", null and ""
IsRadioGroup(fields) ==
    /\ Len(fields) >= 2
    /\ \A k \in 1..Len(fields) :
          /\ fields[k].type = "RadioButton"
          /\ fields[k].label # Null
          /\ EnhanceLabel(fields[k].label) = fields[k].label
    /\ \A i, j \in 1..Len(fields) : fields[i].label = fields[j].label => i = j
    /\ Cardinality({k \in 1..Len(fields) : fields[k].value \notin {Off, Null, <<>>}}) = 1

\* C9: such a group of n RadioButton widgets yields exactly one question, a
\* ChoiceQuestion of type RadioButton with n options whose selected_answers
\* is the one-element list of the selected widget's label.
C9_RadioGroup ==
    pc = "structured" =>
        LET keys == GroupKeys(raw_fields)
        IN \A g \in 1..Len(keys) :
            LET fields == GroupFields(raw_fields, keys[g])
                on == CHOOSE k \in 1..Len(fields) : fields[k].value \notin {Off, Null, <<>>}
                q == structured.questions[g]
            IN IsRadioGroup(fields) =>
                  /\ Len(structured.questions) = Len(keys)
                  /\ IsChoiceQuestion(q) /\ ~IsTextQuestion(q)
                  /\ q.type = "RadioButton"
                  /\ q.total_options = Len(fields)
                  /\ Len(q.options_details) = Len(fields)
                  /\ Len(q.all_options) = Len(fields)
                  /\ q.selected_answers = <<fields[on].label>>

\* a group of three such RadioButton widgets was structured
C9_Witness ==
    /\ pc = "structured"
    /\ \E g \in 1..Len(GroupKeys(raw_fields)) :
          LET fields == GroupFields(raw_fields, GroupKeys(raw_fields)[g])
          IN IsRadioGroup(fields) /\ Len(fields) = 3

\* the name is a Roman numeral, a number and a hash-like segment of 20 or
\* more alphanumeric characters, joined by underscores; e and b are the
\* ends of the numeral and of the number
NumberedHashName(name, e, b) ==
    /\ RomanGroup(name, e)
    /\ b >= e + 2 /\ b + 1 < Len(name)
    /\ name[e + 1] = "_" /\ name[b + 1] = "_"
    /\ AllIn(name, e + 2, b, Digits)
    /\ AllIn(name, b + 2, Len(name), AlphaNum)
    /\ Len(name) - (b + 1) >= HashMinLen

\* C10: for a widget with no declared label whose field name ends in a
\* hash-like segment (I_1_3onV9GF51v2qn4B5z306pQ), the derived question_text
\* does not contain the hash, keeps the numbering that precedes it ("I.1.")
\* and starts with an upper-case letter.
C10_HashNameKeepsNumbering ==
    pc # "collected" =>
        \A g \in 1..Len(GroupKeys(raw_fields)) :
            LET fields == GroupFields(raw_fields, GroupKeys(raw_fields)[g])
                text == structured.questions[g].question_text
            IN \A k \in 1..Len(fields) : \A e, b \in 1..Len(fields[k].name) :
                  (FirstFieldLabel(fields) = Null /\ NumberedHashName(fields[k].name, e, b)) =>
                      LET name == fields[k].name
                      IN /\ ~IsSubstring(SubSeq(name, b + 2, Len(name)), text)
                         /\ StartsWith(text, SubSeq(name, 1, e) \o <<".">>
                                             \o SubSeq(name, e + 2, b) \o <<".">>)
                         /\ text[1] \in Range(UpperLetters)

\* the option_info of every field of a choice group that the loop does not
\* skip, in processing order, before labels are deduplicated
RECURSIVE OptionInfos(_, _, _)
OptionInfos(fields, i, text_input_value) ==
    IF i > Len(fields) THEN <<>>
    ELSE LET field == fields[i]
             companion == field.type = "Text" /\ field.label = Null
         IN IF companion /\ ~Truthy(field.value)
            THEN OptionInfos(fields, i + 1, text_input_value)
            ELSE LET tiv == IF companion THEN field.value ELSE text_input_value
                 IN <<OptionInfo(field, tiv)>> \o OptionInfos(fields, i + 1, tiv)

\* the position in processing order at which the option with the label
\* first became selected
FirstSelectedAt(infos, label) ==
    CHOOSE k \in 1..Len(infos) :
        /\ infos[k].label = label /\ infos[k].is_selected
        /\ \A j \in 1..(k - 1) : ~(infos[j].label = label /\ infos[j].is_selected)

\* C12: after structuring a choice group with a selected option,
\* selected_answers is the labels of the selected options, each once, in the
\* order in which the options first became selected.
C12_FirstSelectedOrder ==
    pc # "collected" =>
        \A g \in 1..Len(GroupKeys(raw_fields)) :
            LET fields == GroupFields(raw_fields, GroupKeys(raw_fields)[g])
                infos == OptionInfos(fields, 1, Null)
                q == structured.questions[g]
            IN (IsChoiceQuestion(q) /\ HasSelectedOption(q)) =>
                  /\ Range(q.selected_answers) =
                        {q.options_details[k].label :
                            k \in {n \in 1..Len(q.options_details) :
                                      q.options_details[n].is_selected}}
                  /\ \A i, j \in 1..Len(q.selected_answers) :
                        /\ (q.selected_answers[i] = q.selected_answers[j] => i = j)
                        /\ (i < j =>
                              FirstSelectedAt(infos, q.selected_answers[i])
                                < FirstSelectedAt(infos, q.selected_answers[j]))

\* C13: in every ChoiceQuestion of the output every entry of all_options,
\* every entry of selected_answers and every options_details label is a
\* string, never null.
C13_LabelsAreStrings ==
    \A n \in 1..Len(OutputQuestions) :
        LET q == OutputQuestions[n]
        IN IsChoiceQuestion(q) =>
              /\ \A k \in 1..Len(q.all_options) : q.all_options[k] # Null
              /\ \A k \in 1..Len(q.selected_answers) : q.selected_answers[k] # Null
              /\ \A k \in 1..Len(q.options_details) : q.options_details[k].label # Null

\* the question texts that three or more structured questions share
LargeGroupTexts ==
    {structured.questions[n].question_text : n \in
        {m \in 1..Len(structured.questions) :
            Len(QuestionsWithText(structured.questions,
                                  structured.questions[m].question_text)) >= 3}}

\* C15: for three or more structured questions sharing a question_text, in
\* any mix of types and any order, the merger returns exactly one question
\* for that question_text.
C15_LargeGroupMergedToOne ==
    pc = "merged" =>
        \A text \in LargeGroupTexts : Len(QuestionsWithText(merged.questions, text)) = 1

\* three questions with one text were merged, a Text question among them
\* and a choice question among them
C15_Witness ==
    /\ pc = "merged"
    /\ \E text \in LargeGroupTexts :
          LET group == QuestionsWithText(structured.questions, text)
          IN /\ \E n \in 1..Len(group) : group[n].type = "Text"
             /\ \E n \in 1..Len(group) : group[n].type \in ChoiceTypes

\* C17: the Field Grouper puts every collected widget in exactly one group,
\* the group keyed by the base key of its field name; no widget is left out.
C17_EveryWidgetGrouped ==
    pc # "collected" =>
        \A i \in 1..Len(raw_fields) :
            LET mine == {g \in 1..Len(GroupKeys(raw_fields)) :
                            \E k \in 1..Len(GroupFields(raw_fields, GroupKeys(raw_fields)[g])) :
                                GroupFields(raw_fields, GroupKeys(raw_fields)[g])[k] = raw_fields[i]}
            IN /\ Cardinality(mine) = 1
               /\ \A g \in mine : GroupKeys(raw_fields)[g] = BaseQuestion(raw_fields[i].name)

\* a Text widget with no resolved label
IsCompanion(field) == field.type = "Text" /\ field.label = Null

\* C18: in a choice group a Text widget with no resolved label is only the
\* free-text companion: every entry of options_details comes from a widget
\* of the group that is not such a Text widget.
C18_CompanionIsNoOption ==
    pc # "collected" =>
        \A g \in 1..Len(GroupKeys(raw_fields)) :
            LET fields == GroupFields(raw_fields, GroupKeys(raw_fields)[g])
                q == structured.questions[g]
            IN IsChoiceQuestion(q) =>
                  /\ Len(q.all_options) = Len(q.options_details)
                  /\ \A k \in 1..Len(q.options_details) :
                        \E n \in 1..Len(fields) :
                            /\ ~IsCompanion(fields[n])
                            /\ fields[n].name = q.options_details[k].field_name
                            /\ ("source_type" \in DOMAIN q.options_details[k]
                                   <=> fields[n].type = "Text")

\* C19: a group whose widgets are all filtered out produces no question:
\* the output has no question with zero options.
C19_NoEmptyQuestion ==
    \A n \in 1..Len(OutputQuestions) :
        LET q == OutputQuestions[n]
        IN IsChoiceQuestion(q) =>
              /\ q.options_details # <<>>
              /\ q.all_options # <<>>
              /\ q.total_options > 0

\* the number of options of a question, none for a TextQuestion
OptionCount(q) == IF IsChoiceQuestion(q) THEN Len(q.options_details) ELSE 0

\* the option k of the choice question c carries the trimmed answer of the
\* Text question t as its label, c and t being the structured pair that
\* shares a question_text
AnswerIsLabel(c, t, k) ==
    /\ ChoiceAndTextPair(c, t)
    /\ k \in 1..Len(c.options_details)
    /\ c.options_details[k].label = Strip(t.answer)

\* C20: when the merged Text answer is the label of an existing option, the
\* merger adds no option, sets that option's is_selected to true and sets
\* its field_value to the answer only when the option had no field_value.
C20_ExistingOptionMarked ==
    pc = "merged" =>
        \A a, b \in 1..Len(structured.questions) :
            LET c == structured.questions[a]
                t == structured.questions[b]
            IN \A k \in 1..OptionCount(c) :
                  AnswerIsLabel(c, t, k) =>
                      LET out == QuestionsWithText(merged.questions, c.question_text)[1]
                          was == c.options_details[k]
                          now == out.options_details[k]
                      IN /\ out.total_options = c.total_options
                         /\ out.all_options = c.all_options
                         /\ Len(out.options_details) = Len(c.options_details)
                         /\ now.is_selected
                         /\ now.label = was.label
                         /\ now.field_value =
                               (IF Truthy(was.field_value) THEN was.field_value
                                ELSE Strip(t.answer))
                         /\ \A j \in 1..Len(c.options_details) :
                               j # k => out.options_details[j] = c.options_details[j]

\* the answer was merged into an unselected option that had a field_value
C20_Witness ==
    /\ pc = "merged"
    /\ \E a, b \in 1..Len(structured.questions) :
          \E k \in 1..OptionCount(structured.questions[a]) :
              /\ AnswerIsLabel(structured.questions[a], structured.questions[b], k)
              /\ ~structured.questions[a].options_details[k].is_selected
              /\ Truthy(structured.questions[a].options_details[k].field_value)

\* the absent-value sentinels, in lower case
Sentinels == {<<"n", "o", "n", "e">>, <<"o", "f", "f">>}

\* C16: extract_answer_from_question returns no answer that is "None" or
\* "Off" in any letter case, and returns the empty list for a ChoiceQuestion
\* whose selected_answers is ["None"] and whose options are all unselected.
C16_SentinelsAreAbsent ==
    pc = "extracted" =>
        \A n \in 1..Len(merged.questions) :
            LET q == merged.questions[n]
            IN /\ \A k \in 1..Len(extracted[n]) : Lower(extracted[n][k]) \notin Sentinels
               /\ (IsChoiceQuestion(q) /\ q.selected_answers = <<NoneStr>>
                     /\ ~HasSelectedOption(q)) => extracted[n] = <<>>

\* some page of the document has a widget
HasWidget(document) == \E p \in 1..Len(document) : document[p] # <<>>

\* C14: when no page of the document has a widget, extract_with_labels
\* returns the empty mapping; when some page has a widget it returns a
\* result with pdf_name, total_questions, extraction_summary and questions.
C14_NoDataIsDistinct ==
    pc = "returned" =>
        /\ ~HasWidget(doc) => results = EmptyResult
        /\ HasWidget(doc) =>
              {"pdf_name", "total_questions", "extraction_summary", "questions"}
                  \subseteq DOMAIN results

\* str.split(" ") of a label
RECURSIVE SplitSpaces(_)
SplitSpaces(s) ==
    IF \A k \in 1..Len(s) : s[k] # " " THEN <<s>>
    ELSE LET i == CHOOSE k \in 1..Len(s) : s[k] = " " /\ \A j \in 1..(k - 1) : s[j] # " "
         IN <<SubSeq(s, 1, i - 1)>> \o SplitSpaces(SubSeq(s, i + 1, Len(s)))

\* the word is vertically aligned with the widget and starts to its right
\* within the proximity threshold
InReach(w) == VerticallyAligned(WidgetRect, w) /\ HorizontallyClose(WidgetRect, w)

\* the word in reach at position n of the page follows, within MAX_WORD_GAP,
\* another word in reach, or no word in reach starts left of it
Chained(n) ==
    \/ \A m \in 1..Len(words_on_page) : InReach(words_on_page[m]) => words_on_page[n].x0 <= words_on_page[m].x0
    \/ \E m \in 1..Len(words_on_page) :
          /\ m # n /\ InReach(words_on_page[m])
          /\ words_on_page[m].x0 <= words_on_page[n].x0
          /\ words_on_page[n].x0 - words_on_page[m].x0 <= MAX_WORD_GAP

\* the word at position n is in reach and no over-threshold gap lies
\* between the widget and it
BeforeFirstGap(n) ==
    /\ InReach(words_on_page[n])
    /\ \A m \in 1..Len(words_on_page) :
          (InReach(words_on_page[m]) /\ words_on_page[m].x0 <= words_on_page[n].x0) => Chained(m)

FirstWithText(questions, question_text) ==
    CHOOSE n \in 1..Len(questions) :
        /\ questions[n].question_text = question_text
        /\ \A m \in 1..(n - 1) : questions[m].question_text # question_text

\* C21: the merger puts out exactly one question per distinct question_text
\* of its input, in the order in which the texts first occur in the input,
\* and a question whose text is unique in the input is put out unchanged.
C21_OnePerTextInOrder ==
    pc = "merged" =>
        LET input == structured.questions
            output == merged.questions
        IN /\ {output[n].question_text : n \in 1..Len(output)}
                 = {input[n].question_text : n \in 1..Len(input)}
           /\ \A i, j \in 1..Len(output) :
                 /\ (output[i].question_text = output[j].question_text => i = j)
                 /\ (i < j => FirstWithText(input, output[i].question_text)
                                 < FirstWithText(input, output[j].question_text))
           /\ \A n \in 1..Len(input) :
                 Len(QuestionsWithText(input, input[n].question_text)) = 1 =>
                     QuestionsWithText(output, input[n].question_text) = <<input[n]>>

\* three questions were merged to two: the first and the last share a text,
\* the one between them has a text of its own
C21_Witness ==
    /\ pc = "merged"
    /\ Len(structured.questions) = 3
    /\ Len(merged.questions) = 2
    /\ structured.questions[1].question_text = structured.questions[3].question_text
    /\ structured.questions[2].question_text # structured.questions[1].question_text

\* the non-empty field values of the option infos, each once, in the order
\* of their first occurrence
RECURSIVE DistinctValues(_, _)
DistinctValues(infos, i) ==
    IF i > Len(infos) THEN <<>>
    ELSE IF Truthy(infos[i].field_value)
            /\ \A j \in 1..(i - 1) : infos[j].field_value # infos[i].field_value
         THEN <<infos[i].field_value>> \o DistinctValues(infos, i + 1)
         ELSE DistinctValues(infos, i + 1)

\* ", ".join(values)
RECURSIVE JoinWithCommas(_)
JoinWithCommas(values) ==
    IF values = <<>> THEN <<>>
    ELSE IF Len(values) = 1 THEN values[1]
    ELSE values[1] \o CommaSpace \o JoinWithCommas(SubSeq(values, 2, Len(values)))

\* C22: when several widgets of a choice group produce the same option
\* label, the one option with that label has is_selected equal to the OR of
\* the widgets' selection states, and its field_value is the distinct
\* non-empty field values of those widgets joined with ", ".
C22_SameLabelMerged ==
    pc = "structured" =>
        LET keys == GroupKeys(raw_fields)
        IN \A g \in 1..Len(keys) :
            LET infos == OptionInfos(GroupFields(raw_fields, keys[g]), 1, Null)
                q == structured.questions[g]
            IN \A k \in 1..OptionCount(q) :
                  LET option == q.options_details[k]
                      same == SelectSeq(infos, LAMBDA o : o.label = option.label)
                  IN Len(same) >= 2 =>
                        /\ option.is_selected = (\E n \in 1..Len(same) : same[n].is_selected)
                        /\ IF DistinctValues(same, 1) # <<>>
                           THEN option.field_value = JoinWithCommas(DistinctValues(same, 1))
                           ELSE ~Truthy(option.field_value)

\* the words of the page in reach of the widget, sorted by x0
SortedInReach == SortByX(SelectSeq(words_on_page, InReach))

\* the texts of the sorted words from the i-th on, up to the first pair of
\* consecutive words with more than MAX_WORD_GAP between the end x1 of the
\* earlier and the start x0 of the later
RECURSIVE WordsUpToGap(_, _)
WordsUpToGap(sorted, i) ==
    IF i > Len(sorted) THEN <<>>
    ELSE IF i > 1 /\ sorted[i].x0 - sorted[i - 1].x1 > MAX_WORD_GAP
         THEN <<>>
         ELSE <<sorted[i].text>> \o WordsUpToGap(sorted, i + 1)

\* C23: the resolved label is the single-space concatenation of the longest
\* prefix of the candidate words sorted by x0 in which every two consecutive
\* words are at most 50 units apart, measured from the end x1 of the earlier
\* word to the start x0 of the later one (the mappings may then complete
\* the label).
C23_GapFromEndToStart ==
    (pc = "resolved" /\ SortedInReach # <<>>) =>
        LET label == JoinWithSpaces(WordsUpToGap(SortedInReach, 1))
        IN widget_label = (IF Truthy(EnhanceLabel(label)) THEN EnhanceLabel(label) ELSE label)

\* the base key with underscores replaced by spaces, a trailing hash-like
\* token stripped, the leading Roman numeral and number normalized,
\* whitespace collapsed and the first letter capitalized
Humanized(base_question) ==
    Capitalize(Strip(CollapseSpaces(NormalizeRoman(StripHashSuffix(
        ReplaceUnderscores(base_question))))))

\* C24: the question_text of a group is the first declared label of its
\* widgets in group order; for a group with no declared label it is the
\* base key humanized by exactly the steps above, every other word of the
\* base key, a short last word included, being kept.
C24_HumanizedBaseKey ==
    pc = "structured" =>
        LET keys == GroupKeys(raw_fields)
        IN \A g \in 1..Len(keys) :
            LET fields == GroupFields(raw_fields, keys[g])
                question_text == structured.questions[g].question_text
            IN IF Truthy(FirstFieldLabel(fields))
               THEN question_text = FirstFieldLabel(fields)
               ELSE Humanized(keys[g]) # <<>> => question_text = Humanized(keys[g])

\* C25: the selection predicate answers for every field and changes
\* nothing: a RadioButton or CheckBox is selected exactly when its value is
\* none of "Off", null and ""; a Text field exactly when its value is
\* non-empty after trimming; a field of any other type never.
C25_SelectionPredicate ==
    [][pc = "field" =>
          /\ checked_field' = checked_field
          /\ field_selected' \in BOOLEAN
          /\ checked_field.type \in {"RadioButton", "CheckBox"} =>
                (field_selected' <=> (/\ checked_field.value # Off
                                      /\ checked_field.value # Null
                                      /\ checked_field.value # <<>>))
          /\ checked_field.type = "Text" =>
                (field_selected' <=> (/\ checked_field.value # Null
                                      /\ Strip(checked_field.value) # <<>>))
          /\ checked_field.type \notin {"RadioButton", "CheckBox", "Text"} =>
                ~field_selected']_vars

\* the predicate was asked about a field of another type that has a value
C25_Witness ==
    /\ pc = "checked"
    /\ checked_field.type \notin {"RadioButton", "CheckBox", "Text"}
    /\ Truthy(checked_field.value)
    /\ ~field_selected

\* C26: for every RadioButton or CheckBox widget with a resolved label, the
\* question of its group has an option with that (enhanced) label, whatever
\* else the group holds and in whatever order; a free-text companion seen
\* earlier in the group does not replace the labels of later widgets.
C26_ChoiceLabelKept ==
    pc = "structured" =>
        LET keys == GroupKeys(raw_fields)
        IN \A g \in 1..Len(keys) :
            LET fields == GroupFields(raw_fields, keys[g])
                q == structured.questions[g]
            IN \A n \in 1..Len(fields) :
                  (fields[n].type \in ChoiceTypes /\ fields[n].label # Null) =>
                      /\ IsChoiceQuestion(q)
                      /\ \E k \in 1..Len(q.options_details) :
                            q.options_details[k].label = EnhanceLabel(fields[n].label)

\* the answers a question carries: the non-blank answer of a TextQuestion,
\* the selected answers of a ChoiceQuestion whose selected_answers is not
\* the ["None"] sentinel
AnswersOf(q) ==
    (IF IsTextQuestion(q) /\ Truthy(q.answer) /\ Strip(q.answer) # <<>>
     THEN {Strip(q.answer)} ELSE {})
    \cup (IF IsChoiceQuestion(q) /\ q.selected_answers # <<NoneStr>>
          THEN Range(q.selected_answers) ELSE {})

\* C27: the merger loses no answer: every non-blank answer of a
\* TextQuestion and every selected answer of a ChoiceQuestion of its input
\* is the answer, or one of the selected answers, of the output question
\* with the same question_text, for groups of any size and composition.
C27_NoAnswerLost ==
    pc = "merged" =>
        \A n \in 1..Len(structured.questions) :
            LET q == structured.questions[n]
                out == QuestionsWithText(merged.questions, q.question_text)
            IN /\ Len(out) = 1
               /\ AnswersOf(q) \subseteq AnswersOf(out[1])

\* the labels of the options of a ChoiceQuestion that are selected
SelectedOptionLabels(q) ==
    {q.options_details[k].label :
        k \in {n \in 1..Len(q.options_details) : q.options_details[n].is_selected}}

\* C28: after duplicate merging, in every ChoiceQuestion whose
\* selected_answers is not the ["None"] sentinel, selected_answers lists the
\* label of each selected option exactly once and nothing else.
C28_SelectedAnswersExact ==
    pc = "merged" =>
        \A n \in 1..Len(merged.questions) :
            LET q == merged.questions[n]
            IN (IsChoiceQuestion(q) /\ q.selected_answers # <<NoneStr>>) =>
                  /\ Range(q.selected_answers) = SelectedOptionLabels(q)
                  /\ \A i, j \in 1..Len(q.selected_answers) :
                        q.selected_answers[i] = q.selected_answers[j] => i = j

\* C29: in the final result every question with a selected option is
\* counted in questions_with_selections and has selected_answers other than
\* ["None"], whatever the label of the option (null and "None" included) and
\* whatever the types of the group's widgets.
C29_SelectedIsCounted ==
    pc = "merged" =>
        /\ Answered(merged) = CountAnswered(merged.questions)
        /\ \A n \in 1..Len(merged.questions) :
              LET q == merged.questions[n]
              IN (IsChoiceQuestion(q) /\ HasSelectedOption(q)) =>
                    /\ q.selected_answers # <<NoneStr>>
                    /\ QuestionHasAnswer(q)

\* the results the stages have put out so far
OutputResults == <<structured, merged, remerged>>

\* C30: in every ChoiceQuestion, after structuring and after duplicate
\* merging, total_options is the length of options_details and of
\* all_options, and all_options[i] is the label of options_details[i] for
\* every i; in every result total_questions is the length of questions.
C30_RedundantFieldsAgree ==
    /\ \A n \in 1..Len(OutputQuestions) :
          LET q == OutputQuestions[n]
          IN IsChoiceQuestion(q) =>
                /\ q.total_options = Len(q.options_details)
                /\ q.total_options = Len(q.all_options)
                /\ \A i \in 1..Len(q.options_details) :
                      q.all_options[i] = q.options_details[i].label
    /\ \A r \in 1..Len(OutputResults) :
          OutputResults[r].total_questions = Len(OutputResults[r].questions)

\* the merger added an option to a choice question and put out fewer
\* questions than it was given
C30_Witness ==
    /\ pc = "merged"
    /\ merged.total_questions < structured.total_questions
    /\ \E m \in 1..Len(merged.questions) : \E n \in 1..Len(structured.questions) :
          /\ IsChoiceQuestion(merged.questions[m]) /\ IsChoiceQuestion(structured.questions[n])
          /\ merged.questions[m].question_text = structured.questions[n].question_text
          /\ merged.questions[m].total_options > structured.questions[n].total_options

====
